---- MODULE Spec2Model ----
(***************************************************************************)
(* The movie ranking page: the client keeps a comparison queue and the     *)
(* movie being inserted (newMovie); every fetch is a suspension point at   *)
(* which other event handlers may run.  The server behind /api/movies and  *)
(* /api/compare is not part of the sources; it is modelled from the        *)
(* specification (baseline ratings, Elo exchange) and handles a request    *)
(* when it is sent; the response reaches the client in a later step.       *)
(***************************************************************************)
EXTENDS Integers, Sequences, FiniteSets, TLC

\* ------------------------------------------------------------- bounds
\* movies already stored when the page is loaded
MaxInit == 3
\* clicks on a rating button (addMovie invocations) in one run
MaxAdds == 2
\* outcomes submitted from the comparison modal in one run
MaxClicks == 3
\* the library's other writers (deleteMovie, the admin page's rescale) are
\* explored over smaller libraries: stored movies, adds and outcomes
MaxLibInit == 2
MaxLibAdds == 1
MaxLibClicks == 2
\* movies deleted in one run
MaxDeletes == 1
\* rescale passes in one run
MaxRescales == 2

\* ---------------------------------------------------------- vocabulary
Categories == {"thumbs_down", "okay", "thumbs_up"}

Choices == {"a", "b", "equal"}

None == [id |-> 0, elo_rating |-> 0]

\* what String.prototype.trim strips (a space and a tab stand for the class)
WhiteSpace == {" ", "\t"}

\* the contents of the title input when a rating button is clicked, as
\* sequences of characters
Titles == {<<>>, <<"\t", " ">>, <<"T">>, <<" ", "T", "\t">>}

\* ------------------------------------------------- server (from the spec)
KFactor == 32

Baseline(cat) ==
    CASE cat = "thumbs_down" -> 500
      [] cat = "okay"        -> 1000
      [] cat = "thumbs_up"   -> 1500

\* Thr[i] is the largest rating difference d = ratingB - ratingA for which
\* K * E_A, rounded to the nearest integer, is at least i, where
\* E_A = 1 / (1 + 10^(d / 400)) and K = 32.
Thr ==
    << 719, 523, 428, 364, 314, 273, 237, 205, 176, 149, 124, 100, 77, 54,
       32, 10, -11, -33, -55, -78, -101, -125, -150, -177, -206, -238, -274,
       -315, -365, -429, -524, -720 >>

\* K * E_A rounded to an integer
ExpectedK(ratingA, ratingB) ==
    Cardinality({i \in 1..KFactor : ratingB - ratingA <= Thr[i]})

\* K * S_A: 1.0 for a win of A, 0.0 for a win of B, 0.5 for a tie
ScoreK(result) ==
    CASE result = "a" -> KFactor
      [] result = "b" -> 0
      [] OTHER        -> KFactor \div 2

\* update() with B's expectation taken against A's rating as already updated
EloUpdate_Sequential(ratingA, ratingB, result) ==
    LET sa == ScoreK(result)
        newA == ratingA + (sa - ExpectedK(ratingA, ratingB))
    IN  [a |-> newA,
         b |-> ratingB + ((KFactor - sa) - ExpectedK(ratingB, newA))]

\* update(ratingA, ratingB, outcome): both new ratings from the same
\* pre-update ratings
EloUpdate(ratingA, ratingB, result) ==
    LET ea == ExpectedK(ratingA, ratingB)
        sa == ScoreK(result)
    IN  [a |-> ratingA + (sa - ea),
         b |-> ratingB + ((KFactor - sa) - (KFactor - ea))]

\* initial libraries: every stored movie is in category "okay", with a rating
\* a few exchanges away from the baseline
InitElos == {1000, 1016}

InitLibraries ==
    UNION {[1..n -> [cat : {"okay"}, elo : InitElos]] : n \in 0..MaxInit}

\* libraries for the runs with deletion and rescale: movies of every
\* category, with ratings that comparisons, earlier rescales and later adds
\* have left out of their category's band
LibElos == {984, 1016, 1999}

LibLibraries ==
    UNION {[1..n -> [cat : Categories, elo : LibElos]] : n \in 0..MaxLibInit}

\* the numeric sub-range reserved for a category
Band(cat) ==
    CASE cat = "thumbs_down" -> [lo |-> 0, hi |-> 999]
      [] cat = "okay"        -> [lo |-> 1000, hi |-> 1999]
      [] cat = "thumbs_up"   -> [lo |-> 2000, hi |-> 2999]

\* the stored movies of a category
Stored(lib, gone, cat) == {i \in 1..Len(lib) : i \notin gone /\ lib[i].cat = cat}

\* the number of movies of i's category ranked above i: those rated higher
\* and, of those rated the same, the ones created earlier
RankIn(lib, gone, i) ==
    Cardinality({j \in Stored(lib, gone, lib[i].cat) :
                    \/ lib[j].elo > lib[i].elo
                    \/ lib[j].elo = lib[i].elo /\ j < i})

\* variant of RescaleElos that ranks each category in ascending order
RescaleElos_Reversed(lib, gone) ==
    [i \in 1..Len(lib) |->
        IF i \in gone
        THEN lib[i]
        ELSE LET band  == Band(lib[i].cat)
                 n     == Cardinality(Stored(lib, gone, lib[i].cat))
                 k     == RankIn(lib, gone, i)
                 steps == IF n > 1 THEN n - 1 ELSE 1
             IN  [lib[i] EXCEPT !.elo = band.lo + ((band.hi - band.lo) * k) \div steps]]

\* variant of RescaleElos that interpolates over the whole library at once
RescaleElos_Ungrouped(lib, gone) ==
    LET all    == {i \in 1..Len(lib) : i \notin gone}
        above(i) == Cardinality({j \in all : \/ lib[j].elo > lib[i].elo
                                             \/ lib[j].elo = lib[i].elo /\ j < i})
        n      == Cardinality(all)
        steps  == IF n > 1 THEN n - 1 ELSE 1
        lo     == Band("thumbs_down").lo
        hi     == Band("thumbs_up").hi
    IN  [i \in 1..Len(lib) |->
            IF i \in gone
            THEN lib[i]
            ELSE [lib[i] EXCEPT !.elo = lo + ((hi - lo) * (n - 1 - above(i))) \div steps]]

\* the rescale pass: every category is compressed into its band, each movie
\* placed by its rank within the category, by linear interpolation from the
\* top of the band (the best) to its bottom (the last, or the only one)
RescaleElos(lib, gone) ==
    [i \in 1..Len(lib) |->
        IF i \in gone
        THEN lib[i]
        ELSE LET band  == Band(lib[i].cat)
                 n     == Cardinality(Stored(lib, gone, lib[i].cat))
                 k     == RankIn(lib, gone, i)
                 steps == IF n > 1 THEN n - 1 ELSE 1
             IN  [lib[i] EXCEPT
                     !.elo = band.lo + ((band.hi - band.lo) * (n - 1 - k)) \div steps]]

VARIABLES
    db,               \* server: movie id -> [cat, elo]
    deleted,          \* server: the ids of the movies deleted
    rescaling,        \* server: a rescale pass is running
    rescales,         \* server: rescale passes started
    newMovie,         \* client: the movie being inserted, or None
    comparisonQueue,  \* client: sequence of session ids
    sessions,         \* client: the session objects ever created
    adds,             \* addMovie invocations
    inflight,         \* handleComparison invocations awaiting /api/compare
    modal,            \* comparison modal visible
    shown,            \* the pair the modal's buttons name
    userButtons,      \* movie list: the users that have a button
    currentUser,      \* movie list: the user selected
    currentFilter,    \* movie list: the filter selected
    loads,            \* movie list: loadUserMovies invocations
    movieList,        \* movie list: whose list #movie-list displays
    authHeader,       \* admin page: the credentials held, or NoAuth
    requests,         \* admin page: the requests awaiting the server
    accepted,         \* admin page: the credentials a validation has accepted
    privileged,       \* admin page: the privileged requests sent
    usersDiv,         \* admin page: the user rows are rendered
    selectedUser,     \* calendar: the user selected, or ""
    selectedPreference, \* calendar: the preference selected, or ""
    updates,          \* calendar: day clicks awaiting /api/preferences
    indicators,       \* calendar: day -> the indicators drawn, in DOM order
    imageGroups,      \* carousel: the number of image groups
    currentIndex,     \* carousel: the slide shown
    jumps,            \* carousel: the wrap-around timeouts pending
    autoScrollInterval, \* carousel: the auto-scroll interval is set
    interactionTimeout, \* carousel: the timeout that resumes auto-scroll is pending
    isSwiping         \* carousel: a touch is under way

\* the ranking part of the movie page and the server behind it
rankingVars == <<db, deleted, rescaling, rescales, newMovie, comparisonQueue,
                 sessions, adds, inflight, modal, shown>>

\* the list part of the movie page
movieListVars == <<userButtons, currentUser, currentFilter, loads, movieList>>

\* the admin page
adminVars == <<authHeader, requests, accepted, privileged, usersDiv>>

\* the camping calendar
campingVars == <<selectedUser, selectedPreference, updates, indicators>>

\* the photo carousel
carouselVars == <<imageGroups, currentIndex, jumps, autoScrollInterval,
                  interactionTimeout, isSwiping>>

\* what the ranking handlers do not touch
elsewhere == <<movieListVars, adminVars, campingVars, carouselVars>>

vars == <<rankingVars, movieListVars, adminVars, campingVars, carouselVars>>

\* the state of the server
server == <<db, deleted, rescaling, rescales>>

\* ------------------------------------------------------------- client
\* movieTitleInput.value.trim(): white space is stripped from both ends
RECURSIVE TrimStart(_)
TrimStart(title) ==
    IF title # <<>> /\ Head(title) \in WhiteSpace
    THEN TrimStart(Tail(title))
    ELSE title

RECURSIVE TrimEnd(_)
TrimEnd(title) ==
    IF title # <<>> /\ title[Len(title)] \in WhiteSpace
    THEN TrimEnd(SubSeq(title, 1, Len(title) - 1))
    ELSE title

\* variant of Trim that takes the input's value as typed
Trim_Raw(title) == title

Trim(title) == TrimEnd(TrimStart(title))

\* variant of Shift that reads the head of the queue and leaves it queued
Shift_Peek(queue) == queue

\* what comparisonQueue.shift() leaves in the queue
Shift(queue) == Tail(queue)

\* movies.filter(m => m.id !== newMovie.id)
FilterOut(movies, id) == SelectSeq(movies, LAMBDA m : m.id # id)

\* variant of InsertDesc that places m before the movies of equal rating
InsertDesc_Unstable(sorted, m) ==
    LET k == Cardinality({i \in 1..Len(sorted) : sorted[i].elo_rating > m.elo_rating})
    IN  SubSeq(sorted, 1, k) \o <<m>> \o SubSeq(sorted, k + 1, Len(sorted))

\* one step of the stable sort by (a, b) => b.elo_rating - a.elo_rating:
\* m goes behind every movie already placed whose rating is not lower
InsertDesc(sorted, m) ==
    LET k == Cardinality({i \in 1..Len(sorted) : sorted[i].elo_rating >= m.elo_rating})
    IN  SubSeq(sorted, 1, k) \o <<m>> \o SubSeq(sorted, k + 1, Len(sorted))

RECURSIVE SortDesc(_)
SortDesc(movies) ==
    IF movies = <<>>
    THEN <<>>
    ELSE InsertDesc(SortDesc(SubSeq(movies, 1, Len(movies) - 1)), movies[Len(movies)])

\* Math.floor((low + high) / 2)
MidOf(low, high) == (low + high) \div 2

\* the session object startBinaryComparison builds.  Indices are 0-based as
\* in the code; compareTo is the index of the object movies[mid] it refers
\* to.  item, count, applied and outcomes are history: the movie the starting
\* addMovie call created, the number of outcomes submitted for the session,
\* the number of them handleComparison has moved the bounds for, and for
\* each of these the index probed, the opponent submitted and the choice.
NewSession(movies, item) ==
    LET sorted == SortDesc(movies)
        low    == 0
        high   == Len(sorted) - 1
        mid    == MidOf(low, high)
    IN  [movies |-> sorted, low |-> low, high |-> high, mid |-> mid,
         compareTo |-> mid, item |-> item, count |-> 0, applied |-> 0,
         outcomes |-> <<>>]

\* the object current.compareTo refers to
Opponent(s) == s.movies[s.compareTo + 1]

\* variants of UpdateBounds with a slip in one branch
UpdateBounds_NoShrink(s, choice) ==
    CASE choice = "a" -> [s EXCEPT !.low = s.mid]
      [] choice = "b" -> [s EXCEPT !.high = s.mid - 1]
      [] OTHER        -> [s EXCEPT !.low = s.high + 1]

UpdateBounds_TieAsWin(s, choice) ==
    CASE choice = "a" -> [s EXCEPT !.low = s.mid + 1]
      [] choice = "b" -> [s EXCEPT !.high = s.mid - 1]
      [] OTHER        -> [s EXCEPT !.low = s.mid + 1]

UpdateBounds_Overshoot(s, choice) ==
    CASE choice = "a" -> [s EXCEPT !.low = s.mid + 2]
      [] choice = "b" -> [s EXCEPT !.high = s.mid - 1]
      [] OTHER        -> [s EXCEPT !.low = s.high + 1]

UpdateBounds_Swapped(s, choice) ==
    CASE choice = "a" -> [s EXCEPT !.high = s.mid - 1]
      [] choice = "b" -> [s EXCEPT !.low = s.mid + 1]
      [] OTHER        -> [s EXCEPT !.low = s.high + 1]

UpdateBounds_KeepProbed(s, choice) ==
    CASE choice = "a" -> [s EXCEPT !.low = s.mid + 1]
      [] choice = "b" -> [s EXCEPT !.high = s.mid]
      [] OTHER        -> [s EXCEPT !.low = s.high + 1]

\* the three branches on choice in handleComparison
UpdateBounds(s, choice) ==
    CASE choice = "a" -> [s EXCEPT !.low = s.mid + 1]
      [] choice = "b" -> [s EXCEPT !.high = s.mid - 1]
      [] OTHER        -> [s EXCEPT !.low = s.high + 1]

\* variant of Continues that stops one candidate early
Continues_Strict(s) == s.low < s.high

\* if (current.low <= current.high)
Continues(s) == s.low <= s.high

\* variant of Reprobe that moves mid and keeps the previous opponent
Reprobe_KeepOpponent(s) == [s EXCEPT !.mid = MidOf(s.low, s.high)]

\* the body of that if: the next probe
Reprobe(s) ==
    LET mid == MidOf(s.low, s.high)
    IN  [s EXCEPT !.mid = mid, !.compareTo = mid]

\* variant of StoreOpponentRating that leaves the opponent's copy as it was
StoreOpponentRating_Skip(s, rating) == s

\* variant of StoreOpponentRating that sorts the candidates again
StoreOpponentRating_Resort(s, rating) ==
    LET m == [s.movies EXCEPT ![s.compareTo + 1].elo_rating = rating]
    IN  [s EXCEPT !.movies = SortDesc(m)]

\* newMovie.elo_rating = data.movie_a_rating;
\* current.compareTo.elo_rating = data.movie_b_rating
StoreOpponentRating(s, rating) ==
    [s EXCEPT !.movies[s.compareTo + 1].elo_rating = rating]

\* showNextComparison: with an empty queue finishRanking hides the modal,
\* otherwise the buttons name newMovie and the head session's opponent
ShowNextComparison(queue, nm, ss) ==
    IF queue = <<>>
    THEN [modal |-> FALSE, shown |-> shown]
    ELSE [modal |-> TRUE,
          shown |-> [a |-> nm.id, b |-> Opponent(ss[Head(queue)]).id]]

\* ------------------------------------------------- server (from the spec)
\* GET /api/movies?user=..&category=..: the stored movies of the category,
\* in creation order
ServerList(cat) ==
    LET all == [i \in 1..Len(db) |-> [id |-> i, elo_rating |-> db[i].elo]]
    IN  SelectSeq(all, LAMBDA m : db[m.id].cat = cat /\ m.id \notin deleted)

\* variant of WriteAllowed that takes no notice of a running pass
WriteAllowed_Always == TRUE

\* the rescale pass has exclusive write access to the owner's movies: while
\* it runs, the server refuses every other write
WriteAllowed == ~rescaling

\* the server knows the movie
Known(id) == id \in 1..Len(db) /\ id \notin deleted

\* the client when the page has loaded, the server idle
InitPage ==
    /\ deleted = {}
    /\ rescaling = FALSE
    /\ rescales = 0
    /\ newMovie = None
    /\ comparisonQueue = <<>>
    /\ sessions = <<>>
    /\ adds = <<>>
    /\ inflight = {}
    /\ modal = FALSE
    /\ shown = [a |-> 0, b |-> 0]

\* the users of the movie page and the filters of its list
MovieUsers == {"Jack", "Jill"}
Filters == {"all"} \cup Categories

\* #movie-list before the first list is displayed
NoList == [user |-> "", filter |-> ""]

\* the movie page's list before populateUsers has answered
InitMovieList ==
    /\ userButtons = {}
    /\ currentUser = "Jack"
    /\ currentFilter = "all"
    /\ loads = <<>>
    /\ movieList = NoList

\* authHeader = null
NoAuth == "null"

\* what the two prompts of ensureAdmin can yield
Credentials == {"good", "bad"}

\* a request of the admin page as sent
Request(kind, creds, caller) == [kind |-> kind, creds |-> creds, caller |-> caller]

\* ensureAdmin up to its first await, called by caller with the credentials
\* hdr held and the requests reqs in flight, the prompts answered by creds
\* (NoAuth: a prompt left empty).  ok: it has returned true.
EnsureAdmin(hdr, reqs, caller, creds) ==
    CASE hdr # NoAuth  -> [ok |-> TRUE, hdr |-> hdr, reqs |-> reqs]
      [] creds = NoAuth -> [ok |-> FALSE, hdr |-> hdr, reqs |-> reqs]
      [] OTHER          -> [ok |-> FALSE, hdr |-> creds,
                            reqs |-> reqs \cup {Request("validate", creds, caller)}]

\* loadUsers up to its first await
LoadUsers(hdr, reqs, creds) ==
    LET e == EnsureAdmin(hdr, reqs, "loadUsers", creds)
    IN  IF e.ok
        THEN [e EXCEPT !.reqs = @ \cup {Request("users", e.hdr, "loadUsers")}]
        ELSE e

\* the admin page after DOMContentLoaded: loadUsers has called ensureAdmin
\* and the prompts were answered by creds
InitAdmin(creds) ==
    /\ authHeader = LoadUsers(NoAuth, {}, creds).hdr
    /\ requests = LoadUsers(NoAuth, {}, creds).reqs
    /\ accepted = {}
    /\ privileged = {}
    /\ usersDiv = FALSE

\* the days of the calendar, its users and the preference buttons
Days == {1, 2}
CampingUsers == {"Jack", "Nick"}
Preferences == {"prefer_not", "no", "clear"}

\* the calendar as rendered with the indicators ind, nothing selected
InitCamping(ind) ==
    /\ selectedUser = ""
    /\ selectedPreference = ""
    /\ updates = <<>>
    /\ indicators = ind

\* the carousel of n image groups after initCarousel
InitCarousel(n) ==
    /\ imageGroups = n
    /\ currentIndex = 1
    /\ jumps = <<>>
    /\ autoScrollInterval = TRUE
    /\ interactionTimeout = FALSE
    /\ isSwiping = FALSE

\* the other pages as loaded, nobody using them
InitElsewhere ==
    /\ InitMovieList
    /\ InitAdmin(NoAuth)
    /\ InitCamping([d \in Days |-> <<>>])
    /\ InitCarousel(1)

Init ==
    /\ db \in InitLibraries
    /\ InitPage
    /\ InitElsewhere

InitLib ==
    /\ db \in LibLibraries
    /\ InitPage
    /\ InitElsewhere

\* the outcomes submitted so far for the sessions 1..n
RECURSIVE Submitted(_)
Submitted(n) == IF n = 0 THEN 0 ELSE sessions[n].count + Submitted(n - 1)

\* ------------------------------------------------------------ actions
\* a rating button is clicked while the trimmed title is empty: a message is
\* shown and the handler returns; nothing is sent
ClickRatingBlank(title) ==
    /\ Trim(title) = <<>>
    /\ UNCHANGED vars

\* a rating button is clicked with a title typed in: addMovie sends
\* POST /api/movies with the trimmed title; the server creates the movie at
\* its category's baseline, or rejects the request
ClickRating(cat, ok) ==
    /\ Len(adds) < MaxAdds
    /\ \E title \in Titles :
          /\ Trim(title) # <<>>
          /\ IF ok /\ WriteAllowed
             THEN /\ db' = Append(db, [cat |-> cat, elo |-> Baseline(cat)])
                  /\ adds' = Append(adds, [cat |-> cat, phase |-> "post_ok",
                                           movie |-> Len(db) + 1, list |-> <<>>,
                                           result |-> "", title |-> Trim(title)])
             ELSE /\ adds' = Append(adds, [cat |-> cat, phase |-> "post_err",
                                           movie |-> 0, list |-> <<>>,
                                           result |-> "", title |-> Trim(title)])
                  /\ UNCHANGED db
    /\ UNCHANGED <<deleted, rescaling, rescales>>
    /\ UNCHANGED <<newMovie, comparisonQueue, sessions, inflight, modal, shown>>
    /\ UNCHANGED elsewhere

\* addMovie resumes after the POST: on an error it throws into its catch,
\* otherwise it sets newMovie and getMoviesInCategory sends the GET, which
\* the server answers with the category's movies, or fails
AddMovieCreated(i, ok) ==
    /\ adds[i].phase \in {"post_ok", "post_err"}
    /\ IF adds[i].phase = "post_ok"
       THEN /\ newMovie' = [id |-> adds[i].movie, elo_rating |-> Baseline(adds[i].cat)]
            /\ adds' = IF ok
                       THEN [adds EXCEPT ![i].phase = "get_ok",
                                         ![i].list = ServerList(adds[i].cat)]
                       ELSE [adds EXCEPT ![i].phase = "get_err"]
       ELSE /\ ok
            /\ adds' = [adds EXCEPT ![i].phase = "done", ![i].result = "rejected"]
            /\ UNCHANGED newMovie
    /\ UNCHANGED <<server, comparisonQueue, sessions, inflight, modal, shown>>
    /\ UNCHANGED elsewhere

\* addMovie resumes after the GET: the list is filtered by the current
\* newMovie; a non-empty list starts a session, an empty one ends the add
AddMovieListed(i) ==
    /\ adds[i].phase \in {"get_ok", "get_err"}
    /\ LET categoryMovies == FilterOut(adds[i].list, newMovie.id)
       IN  IF adds[i].phase = "get_ok" /\ Len(categoryMovies) > 0
           THEN LET ss  == Append(sessions, NewSession(categoryMovies, adds[i].movie))
                    q   == <<Len(ss)>>
                    nxt == ShowNextComparison(q, newMovie, ss)
                IN  /\ sessions' = ss
                    /\ comparisonQueue' = q
                    /\ modal' = nxt.modal
                    /\ shown' = nxt.shown
                    /\ adds' = [adds EXCEPT ![i].phase = "done", ![i].list = <<>>,
                                            ![i].result = "session"]
           ELSE /\ adds' = [adds EXCEPT ![i].phase = "done", ![i].list = <<>>,
                                        ![i].result = IF adds[i].phase = "get_ok"
                                                      THEN "alone" ELSE "failed"]
                /\ UNCHANGED <<sessions, comparisonQueue, modal, shown>>
    /\ UNCHANGED <<server, newMovie, inflight>>
    /\ UNCHANGED elsewhere

\* a button of the visible modal is clicked: handleComparison shifts the
\* queue and sends POST /api/compare; the server applies the exchange to
\* both stored ratings, or fails: it does not know one of the movies
\* ("gone"), a rescale pass keeps the write out ("conflict"), or anything
\* else ("err").  round is history: the number of this outcome among those
\* submitted for the session.
HandleComparison(choice, ok) ==
    /\ modal
    /\ Submitted(Len(sessions)) < MaxClicks
    /\ comparisonQueue # <<>>
    /\ LET sid == Head(comparisonQueue)
           a   == newMovie.id
           b   == Opponent(sessions[sid]).id
           r   == EloUpdate(db[a].elo, db[b].elo, choice)
           c   == [sid |-> sid, choice |-> choice, a |-> a, b |-> b,
                   round |-> sessions[sid].count + 1]
           why == CASE ~(Known(a) /\ Known(b)) -> "gone"
                    [] ~ok \/ a = b           -> "err"
                    [] ~WriteAllowed           -> "conflict"
                    [] OTHER                   -> "ok"
       IN  /\ comparisonQueue' = Shift(comparisonQueue)
           /\ sessions' = [sessions EXCEPT ![sid].count = @ + 1]
           /\ IF why = "ok"
              THEN /\ db' = [db EXCEPT ![a].elo = r.a, ![b].elo = r.b]
                   /\ inflight' = inflight \cup
                          {c @@ [phase |-> "ok", ra |-> r.a, rb |-> r.b]}
              ELSE /\ inflight' = inflight \cup
                          {c @@ [phase |-> why, ra |-> 0, rb |-> 0]}
                   /\ UNCHANGED db
    /\ UNCHANGED <<deleted, rescaling, rescales>>
    /\ UNCHANGED <<newMovie, adds, modal, shown>>
    /\ UNCHANGED elsewhere

\* variant of HandleComparisonEmpty that sends the outcome for the
\* comparison still in flight once more
HandleComparisonEmpty_Resubmit(choice) ==
    /\ modal
    /\ comparisonQueue = <<>>
    /\ \E c \in inflight :
          inflight' = inflight \cup {[c EXCEPT !.choice = choice, !.phase = "err",
                                              !.ra = 0, !.rb = 0]}
    /\ UNCHANGED <<server, newMovie, comparisonQueue, sessions, adds, modal, shown>>
    /\ UNCHANGED elsewhere

\* the same click with an empty queue: shift() yields undefined, reading
\* current.compareTo throws inside the try, and current.low throws behind
\* the catch; the handler ends with nothing sent and nothing changed
HandleComparisonEmpty(choice) ==
    /\ modal
    /\ comparisonQueue = <<>>
    /\ UNCHANGED vars

\* handleComparison resumes: local ratings from the response (skipped when
\* the request failed), then the bounds, the re-queue and showNextComparison
HandleComparisonResume(c) ==
    /\ c \in inflight
    /\ LET nm  == IF c.phase = "ok" THEN [newMovie EXCEPT !.elo_rating = c.ra]
                                    ELSE newMovie
           s0  == sessions[c.sid]
           s1  == IF c.phase = "ok" THEN StoreOpponentRating(s0, c.rb) ELSE s0
           s2  == UpdateBounds(s1, c.choice)
           s3  == IF Continues(s2) THEN Reprobe(s2) ELSE s2
           ss  == [sessions EXCEPT ![c.sid] =
                      [s3 EXCEPT !.applied = @ + 1,
                                 !.outcomes = Append(@, [mid |-> s0.mid, opp |-> c.b,
                                                         choice |-> c.choice])]]
           q   == IF Continues(s2) THEN <<c.sid>> \o comparisonQueue
                                   ELSE comparisonQueue
           nxt == ShowNextComparison(q, nm, ss)
       IN  /\ newMovie' = nm
           /\ sessions' = ss
           /\ comparisonQueue' = q
           /\ modal' = nxt.modal
           /\ shown' = nxt.shown
    /\ inflight' = inflight \ {c}
    /\ UNCHANGED <<server, adds>>
    /\ UNCHANGED elsewhere

\* a delete button of the movie list is clicked: deleteMovie sends
\* DELETE /api/movies/<id>; the server removes the movie, or refuses
DeleteMovie(id, ok) ==
    /\ Cardinality(deleted) < MaxDeletes
    /\ Known(id)
    /\ deleted' = IF ok /\ WriteAllowed THEN deleted \cup {id} ELSE deleted
    /\ UNCHANGED <<db, rescaling, rescales, newMovie, comparisonQueue, sessions,
                   adds, inflight, modal, shown>>
    /\ UNCHANGED elsewhere

\* the admin page's rescale button is clicked, the credentials are accepted
\* and the question is confirmed (go), or not: the handler sends
\* POST /admin/api/rescale_elos and the server starts a pass, unless one is
\* running
RescaleClick(go) ==
    /\ rescales < MaxRescales
    /\ IF go /\ ~rescaling
       THEN rescaling' = TRUE /\ rescales' = rescales + 1
       ELSE UNCHANGED <<rescaling, rescales>>
    /\ UNCHANGED <<db, deleted, newMovie, comparisonQueue, sessions, adds,
                   inflight, modal, shown>>
    /\ UNCHANGED elsewhere

\* the pass ends: every rating is rewritten, or none is (all-or-nothing);
\* the handler shows the outcome in an alert
RescaleDone(ok) ==
    /\ rescaling
    /\ rescaling' = FALSE
    /\ db' = IF ok THEN RescaleElos(db, deleted) ELSE db
    /\ UNCHANGED <<deleted, rescales, newMovie, comparisonQueue, sessions, adds,
                   inflight, modal, shown>>
    /\ UNCHANGED elsewhere

Next ==
    \/ \E title \in Titles : ClickRatingBlank(title)
    \/ \E cat \in Categories, ok \in BOOLEAN : ClickRating(cat, ok)
    \/ \E i \in 1..Len(adds), ok \in BOOLEAN : AddMovieCreated(i, ok)
    \/ \E i \in 1..Len(adds) : AddMovieListed(i)
    \/ \E choice \in Choices, ok \in BOOLEAN : HandleComparison(choice, ok)
    \/ \E choice \in Choices : HandleComparisonEmpty(choice)
    \/ \E c \in inflight : HandleComparisonResume(c)

Spec == Init /\ [][Next]_vars

\* the page together with the library's other writers (deleteMovie, which
\* another tab or device may run as well, and the admin page's rescale),
\* within the smaller budget.  Under Spec the server state changes through
\* the page's own add and compare requests only.
NextLib ==
    \/ \E title \in Titles : ClickRatingBlank(title)
    \/ \E cat \in Categories, ok \in BOOLEAN :
          Len(adds) < MaxLibAdds /\ ClickRating(cat, ok)
    \/ \E i \in 1..Len(adds), ok \in BOOLEAN : AddMovieCreated(i, ok)
    \/ \E i \in 1..Len(adds) : AddMovieListed(i)
    \/ \E choice \in Choices, ok \in BOOLEAN :
          Submitted(Len(sessions)) < MaxLibClicks /\ HandleComparison(choice, ok)
    \/ \E choice \in Choices : HandleComparisonEmpty(choice)
    \/ \E c \in inflight : HandleComparisonResume(c)
    \/ \E id \in 1..Len(db), ok \in BOOLEAN : DeleteMovie(id, ok)
    \/ \E go \in BOOLEAN : RescaleClick(go)
    \/ \E ok \in BOOLEAN : RescaleDone(ok)

SpecLib == InitLib /\ [][NextLib]_vars

\* the user answers the comparison shown
Answer == \E choice \in Choices, ok \in BOOLEAN : HandleComparison(choice, ok)

\* a compare request completes, successfully or not
Complete == \E c \in inflight : HandleComparisonResume(c)

\* the page with a user who answers every comparison shown, as long as the
\* click budget lasts, and a network on which every compare request completes
InitLive ==
    /\ db \in {lib \in InitLibraries : Len(lib) <= MaxLibInit}
    /\ InitPage
    /\ InitElsewhere

SpecLive == InitLive /\ [][Next]_vars /\ WF_vars(Answer) /\ WF_vars(Complete)

\* the library of the worked example: three movies of category "okay" rated
\* 1500, 1400 and 1300, stored in any order
ScenarioElos == <<1500, 1400, 1300>>

ScenarioLibraries ==
    {[i \in 1..3 |-> [cat |-> "okay", elo |-> ScenarioElos[f[i]]]] :
        f \in Permutations(1..3)}

InitScenario ==
    /\ db \in ScenarioLibraries
    /\ InitPage
    /\ InitElsewhere

SpecScenario == InitScenario /\ [][NextLib]_vars

\* --------------------------------------------------- the rating model
\* the ratings two movies of a category start from
EloInputs == {1000, 1011, 1500}

\* two rated movies, the pages idle
InitElo ==
    /\ db \in {<<[cat |-> "okay", elo |-> x], [cat |-> "okay", elo |-> y]>> :
                  x \in EloInputs, y \in EloInputs}
    /\ InitPage
    /\ InitElsewhere

\* POST /api/compare served for movie_a = a, movie_b = b: one update() call,
\* both ratings written together
Compare(a, b, result) ==
    /\ a # b
    /\ Known(a) /\ Known(b)
    /\ WriteAllowed
    /\ LET u == EloUpdate(db[a].elo, db[b].elo, result)
       IN  db' = [db EXCEPT ![a].elo = u.a, ![b].elo = u.b]
    /\ UNCHANGED <<deleted, rescaling, rescales, newMovie, comparisonQueue,
                   sessions, adds, inflight, modal, shown>>
    /\ UNCHANGED elsewhere

NextElo ==
    \E a \in 1..Len(db), b \in 1..Len(db), result \in Choices : Compare(a, b, result)

SpecElo == InitElo /\ [][NextElo]_vars

\* ------------------------------------------------------ the movie list
\* loadUserMovies invocations modelled per run
MaxLoads == 3

\* every page as loaded, the library empty
InitIdle ==
    /\ db = <<>>
    /\ InitPage
    /\ InitElsewhere

\* the answers of /api/users
UserLists == {<<>>, <<"Jill">>, <<"Jack", "Jill">>}

\* loadUserMovies up to its await: the request names the current user
LoadUserMovies(user) == Append(loads, [user |-> user, phase |-> "sent"])

\* populateUsers resumes.  With the users: a button each, and currentUser
\* stays if it is among them (or none came), else it is the first of them.
\* In its catch: the one button 'Jack', selected.  Either way the first list
\* is requested.
PopulateUsers(users, ok) ==
    /\ loads = <<>>
    /\ LET names == {users[k] : k \in 1..Len(users)}
           user  == CASE ~ok -> "Jack"
                      [] ok /\ users # <<>> /\ currentUser \notin names -> users[1]
                      [] OTHER -> currentUser
       IN  /\ userButtons' = IF ok THEN names ELSE {"Jack"}
           /\ currentUser' = user
           /\ loads' = LoadUserMovies(user)
    /\ UNCHANGED <<currentFilter, movieList>>
    /\ UNCHANGED <<rankingVars, adminVars, campingVars, carouselVars>>

\* a user button is clicked
SelectUser(user) ==
    /\ user \in userButtons
    /\ Len(loads) < MaxLoads
    /\ currentUser' = user
    /\ loads' = LoadUserMovies(user)
    /\ UNCHANGED <<userButtons, currentFilter, movieList>>
    /\ UNCHANGED <<rankingVars, adminVars, campingVars, carouselVars>>

\* a filter button is clicked, the user buttons being there
SelectFilter(filter) ==
    /\ loads # <<>>
    /\ Len(loads) < MaxLoads
    /\ currentFilter' = filter
    /\ loads' = LoadUserMovies(currentUser)
    /\ UNCHANGED <<userButtons, currentUser, movieList>>
    /\ UNCHANGED <<rankingVars, adminVars, campingVars, carouselVars>>

\* loadUserMovies resumes with the movies of the user it asked for: they are
\* filtered by the current filter and displayed; on an error only a message
\* is shown
LoadUserMoviesResume(i, ok) ==
    /\ loads[i].phase = "sent"
    /\ IF ok
       THEN /\ movieList' = [user |-> loads[i].user, filter |-> currentFilter]
            /\ loads' = [loads EXCEPT ![i].phase = "done"]
       ELSE /\ loads' = [loads EXCEPT ![i].phase = "failed"]
            /\ UNCHANGED movieList
    /\ UNCHANGED <<userButtons, currentUser, currentFilter>>
    /\ UNCHANGED <<rankingVars, adminVars, campingVars, carouselVars>>

NextMovieList ==
    \/ \E users \in UserLists, ok \in BOOLEAN : PopulateUsers(users, ok)
    \/ \E user \in MovieUsers : SelectUser(user)
    \/ \E filter \in Filters : SelectFilter(filter)
    \/ \E i \in 1..Len(loads), ok \in BOOLEAN : LoadUserMoviesResume(i, ok)

SpecMovieList == InitIdle /\ [][NextMovieList]_vars

\* ----------------------------------------------------- the admin page
\* the server accepts the credentials
Accepts(creds) == creds = "good"

\* the log of privileged requests after one of kind is sent with authHeader
Sent(kind, acc) ==
    privileged \cup {[kind |-> kind, creds |-> authHeader, validated |-> authHeader \in acc]}

InitAdminPage ==
    /\ db = <<>>
    /\ InitPage
    /\ InitMovieList
    /\ \E creds \in Credentials \cup {NoAuth} : InitAdmin(creds)
    /\ InitCamping([d \in Days |-> <<>>])
    /\ InitCarousel(1)

\* the rescale button is clicked: ensureAdmin, then the confirm dialog
\* (answered by go), then the request
RescaleHandler(creds, go) ==
    /\ LET e == EnsureAdmin(authHeader, requests, "rescale", creds)
       IN  /\ authHeader' = e.hdr
           /\ IF e.ok /\ go
              THEN /\ requests' = e.reqs \cup {Request("rescale", authHeader, "rescale")}
                   /\ privileged' = Sent("rescale", accepted)
              ELSE /\ requests' = e.reqs
                   /\ UNCHANGED privileged
    /\ UNCHANGED <<accepted, usersDiv>>
    /\ UNCHANGED <<rankingVars, movieListVars, campingVars, carouselVars>>

\* the add-user button is clicked: ensureAdmin, then the prompts for the name
\* and the password (go: both answered), then POST /register, which carries
\* no credentials
AddUserHandler(creds, go) ==
    /\ LET e == EnsureAdmin(authHeader, requests, "addUser", creds)
       IN  /\ authHeader' = e.hdr
           /\ requests' = IF e.ok /\ go
                          THEN e.reqs \cup {Request("register", NoAuth, "addUser")}
                          ELSE e.reqs
    /\ UNCHANGED <<accepted, privileged, usersDiv>>
    /\ UNCHANGED <<rankingVars, movieListVars, campingVars, carouselVars>>

\* the Delete button of a user row is clicked and confirmed
DeleteUserHandler ==
    /\ usersDiv
    /\ requests' = requests \cup {Request("delete", authHeader, "delete")}
    /\ privileged' = Sent("delete", accepted)
    /\ UNCHANGED <<authHeader, accepted, usersDiv>>
    /\ UNCHANGED <<rankingVars, movieListVars, campingVars, carouselVars>>

\* the Change Password button of a user row is clicked, a password entered
ChangePasswordHandler ==
    /\ usersDiv
    /\ requests' = requests \cup {Request("password", authHeader, "password")}
    /\ privileged' = Sent("password", accepted)
    /\ UNCHANGED <<authHeader, accepted, usersDiv>>
    /\ UNCHANGED <<rankingVars, movieListVars, campingVars, carouselVars>>

\* ensureAdmin resumes with the answer to its validating request.  Rejected:
\* authHeader = null and the caller returns.  Accepted: the caller goes on,
\* loadUsers with its request, the rescale handler with the confirm dialog
\* and its request, the add-user handler with its prompts and its request.
EnsureAdminResume(r, go) ==
    /\ r \in requests
    /\ r.kind = "validate"
    /\ IF Accepts(r.creds)
       THEN /\ accepted' = accepted \cup {r.creds}
            /\ UNCHANGED authHeader
            /\ requests' =
                  (requests \ {r}) \cup
                  CASE r.caller = "loadUsers" -> {Request("users", authHeader, "loadUsers")}
                    [] r.caller = "rescale" /\ go -> {Request("rescale", authHeader, "rescale")}
                    [] r.caller = "addUser" /\ go -> {Request("register", NoAuth, "addUser")}
                    [] OTHER -> {}
            /\ privileged' = IF r.caller = "rescale" /\ go
                             THEN Sent("rescale", accepted')
                             ELSE privileged
       ELSE /\ authHeader' = NoAuth
            /\ requests' = requests \ {r}
            /\ UNCHANGED <<accepted, privileged>>
    /\ UNCHANGED usersDiv
    /\ UNCHANGED <<rankingVars, movieListVars, campingVars, carouselVars>>

\* loadUsers resumes with the answer to GET /admin/api/users: the rows are
\* cleared, then rebuilt from the users; the body of a refusal is no array
\* and forEach throws with the rows cleared
LoadUsersResume(r) ==
    /\ r \in requests
    /\ r.kind = "users"
    /\ requests' = requests \ {r}
    /\ usersDiv' = Accepts(r.creds)
    /\ UNCHANGED <<authHeader, accepted, privileged>>
    /\ UNCHANGED <<rankingVars, movieListVars, campingVars, carouselVars>>

\* a delete or register request is answered: on success loadUsers is called
\* (ok: the registration succeeded; a delete succeeds when the server
\* accepts its credentials)
ReloadAfter(r, ok, creds) ==
    /\ r \in requests
    /\ r.kind \in {"delete", "register"}
    /\ LET done == requests \ {r}
           e == LoadUsers(authHeader, done, creds)
       IN  IF (r.kind = "delete" /\ Accepts(r.creds)) \/ (r.kind = "register" /\ ok)
           THEN authHeader' = e.hdr /\ requests' = e.reqs
           ELSE authHeader' = authHeader /\ requests' = done
    /\ UNCHANGED <<accepted, privileged, usersDiv>>
    /\ UNCHANGED <<rankingVars, movieListVars, campingVars, carouselVars>>

\* a rescale or change-password request is answered: an alert at most
Answered(r) ==
    /\ r \in requests
    /\ r.kind \in {"rescale", "password"}
    /\ requests' = requests \ {r}
    /\ UNCHANGED <<authHeader, accepted, privileged, usersDiv>>
    /\ UNCHANGED <<rankingVars, movieListVars, campingVars, carouselVars>>

NextAdmin ==
    \/ \E creds \in Credentials \cup {NoAuth}, go \in BOOLEAN : RescaleHandler(creds, go)
    \/ \E creds \in Credentials \cup {NoAuth}, go \in BOOLEAN : AddUserHandler(creds, go)
    \/ DeleteUserHandler
    \/ ChangePasswordHandler
    \/ \E r \in requests, go \in BOOLEAN : EnsureAdminResume(r, go)
    \/ \E r \in requests : LoadUsersResume(r)
    \/ \E r \in requests, ok \in BOOLEAN, creds \in Credentials \cup {NoAuth} :
          ReloadAfter(r, ok, creds)
    \/ \E r \in requests : Answered(r)

SpecAdmin == InitAdminPage /\ [][NextAdmin]_vars

\* ------------------------------------------------- the camping calendar
\* day clicks modelled per run
MaxUpdates == 2

\* the calendars the server renders: no indicator, or Jack's on day 1
InitIndicators ==
    {[d \in Days |-> <<>>],
     [d \in Days |-> IF d = 1 THEN <<[user |-> "Jack", pref |-> "no"]>> ELSE <<>>]}

InitCampingPage ==
    /\ db = <<>>
    /\ InitPage
    /\ InitMovieList
    /\ InitAdmin(NoAuth)
    /\ \E ind \in InitIndicators : InitCamping(ind)
    /\ InitCarousel(1)

\* a user button that is not the active one is clicked
UserButtonClick(userName) ==
    /\ userName # selectedUser
    /\ selectedUser' = userName
    /\ UNCHANGED <<selectedPreference, updates, indicators>>
    /\ UNCHANGED <<rankingVars, movieListVars, adminVars, carouselVars>>

\* a preference button that is not the active one is clicked
PreferenceButtonClick(preferenceValue) ==
    /\ preferenceValue # selectedPreference
    /\ selectedPreference' = preferenceValue
    /\ UNCHANGED <<selectedUser, updates, indicators>>
    /\ UNCHANGED <<rankingVars, movieListVars, adminVars, carouselVars>>

\* a day is clicked: without a user or a preference only a message; else
\* dataToSend is posted to /api/preferences
DayClick(day) ==
    /\ Len(updates) < MaxUpdates
    /\ updates' = IF selectedUser = "" \/ selectedPreference = ""
                  THEN updates
                  ELSE Append(updates, [day |-> day, user |-> selectedUser,
                                        pref |-> selectedPreference, phase |-> "sent"])
    /\ UNCHANGED <<selectedUser, selectedPreference, indicators>>
    /\ UNCHANGED <<rankingVars, movieListVars, adminVars, carouselVars>>

\* updateDayVisualState on the indicators of one day: the first indicator of
\* the user is removed, and unless the preference is 'clear' a new one is
\* appended
UpdateDayVisualState(shown0, userName, preferenceType) ==
    LET own  == {k \in 1..Len(shown0) : shown0[k].user = userName}
        kept == IF own = {}
                THEN shown0
                ELSE LET first == CHOOSE k \in own : \A j \in own : k <= j
                     IN  SubSeq(shown0, 1, first - 1) \o SubSeq(shown0, first + 1, Len(shown0))
    IN  IF preferenceType = "clear"
        THEN kept
        ELSE Append(kept, [user |-> userName, pref |-> preferenceType])

\* the click handler resumes with the answer: on success the day is redrawn
\* with the user and the preference selected now; else only a message
DayClickResume(i, ok) ==
    /\ updates[i].phase = "sent"
    /\ IF ok
       THEN /\ updates' = [updates EXCEPT ![i].phase = "ok"]
            /\ indicators' =
                  [indicators EXCEPT ![updates[i].day] =
                      UpdateDayVisualState(@, selectedUser, selectedPreference)]
       ELSE /\ updates' = [updates EXCEPT ![i].phase = "failed"]
            /\ UNCHANGED indicators
    /\ UNCHANGED <<selectedUser, selectedPreference>>
    /\ UNCHANGED <<rankingVars, movieListVars, adminVars, carouselVars>>

NextCamping ==
    \/ \E userName \in CampingUsers : UserButtonClick(userName)
    \/ \E preferenceValue \in Preferences : PreferenceButtonClick(preferenceValue)
    \/ \E day \in Days : DayClick(day)
    \/ \E i \in 1..Len(updates), ok \in BOOLEAN : DayClickResume(i, ok)

SpecCamping == InitCampingPage /\ [][NextCamping]_vars

\* ------------------------------------------------------- the carousel
\* image groups of the page, wrap-around timeouts pending at once, and
\* slides that clicks may run past the clones
MaxGroups == 3
MaxJumps == 2
MaxOvershoot == 2

InitCarouselPage ==
    /\ db = <<>>
    /\ InitPage
    /\ InitMovieList
    /\ InitAdmin(NoAuth)
    /\ InitCamping([d \in Days |-> <<>>])
    /\ \E n \in 1..MaxGroups : InitCarousel(n)

\* nextTrio: one slide on; on the clone of the first group a timeout is set
\* that jumps to the real first group
NextTrio ==
    /\ currentIndex < imageGroups + 1 + MaxOvershoot
    /\ currentIndex + 1 = imageGroups + 1 => Len(jumps) < MaxJumps
    /\ currentIndex' = currentIndex + 1
    /\ jumps' = IF currentIndex + 1 = imageGroups + 1 THEN Append(jumps, 1) ELSE jumps

\* prevTrio: one slide back; on the clone of the last group a timeout is set
\* that jumps to the real last group
PrevTrio ==
    /\ currentIndex > 0 - MaxOvershoot
    /\ currentIndex - 1 = 0 => Len(jumps) < MaxJumps
    /\ currentIndex' = currentIndex - 1
    /\ jumps' = IF currentIndex - 1 = 0 THEN Append(jumps, imageGroups) ELSE jumps

\* resetAutoScrollTimer: the interval is cleared and the resuming timeout set
ResetAutoScrollTimer ==
    /\ autoScrollInterval' = FALSE
    /\ interactionTimeout' = TRUE

NextButtonClick ==
    /\ NextTrio
    /\ ResetAutoScrollTimer
    /\ UNCHANGED <<imageGroups, isSwiping>>
    /\ UNCHANGED <<rankingVars, movieListVars, adminVars, campingVars>>

PrevButtonClick ==
    /\ PrevTrio
    /\ ResetAutoScrollTimer
    /\ UNCHANGED <<imageGroups, isSwiping>>
    /\ UNCHANGED <<rankingVars, movieListVars, adminVars, campingVars>>

TouchStart ==
    /\ isSwiping' = TRUE
    /\ ResetAutoScrollTimer
    /\ UNCHANGED <<imageGroups, currentIndex, jumps>>
    /\ UNCHANGED <<rankingVars, movieListVars, adminVars, campingVars>>

\* touchend: a swipe to the left is nextTrio, one to the right prevTrio,
\* anything shorter snaps back
TouchEnd(swipe) ==
    /\ isSwiping
    /\ isSwiping' = FALSE
    /\ CASE swipe = "left"  -> NextTrio
         [] swipe = "right" -> PrevTrio
         [] OTHER           -> UNCHANGED <<currentIndex, jumps>>
    /\ ResetAutoScrollTimer
    /\ UNCHANGED imageGroups
    /\ UNCHANGED <<rankingVars, movieListVars, adminVars, campingVars>>

\* the auto-scroll interval (5000 ms) ticks; it is ten times the delay of a
\* wrap-around timeout, so none set by an earlier tick is still pending
AutoScrollTick ==
    /\ autoScrollInterval
    /\ jumps = <<>>
    /\ NextTrio
    /\ UNCHANGED <<imageGroups, autoScrollInterval, interactionTimeout, isSwiping>>
    /\ UNCHANGED <<rankingVars, movieListVars, adminVars, campingVars>>

\* interactionTimeout fires: startAutoScroll
StartAutoScroll ==
    /\ interactionTimeout
    /\ interactionTimeout' = FALSE
    /\ autoScrollInterval' = TRUE
    /\ UNCHANGED <<imageGroups, currentIndex, jumps, isSwiping>>
    /\ UNCHANGED <<rankingVars, movieListVars, adminVars, campingVars>>

\* the oldest wrap-around timeout fires, 500 ms after it was set
WrapAround ==
    /\ jumps # <<>>
    /\ currentIndex' = Head(jumps)
    /\ jumps' = Tail(jumps)
    /\ UNCHANGED <<imageGroups, autoScrollInterval, interactionTimeout, isSwiping>>
    /\ UNCHANGED <<rankingVars, movieListVars, adminVars, campingVars>>

\* the debounced resize handler fires: initCarousel rebuilds the slides and
\* starts auto-scroll if it is off; pending timeouts stay
Resize ==
    /\ currentIndex' = 1
    /\ autoScrollInterval' = TRUE
    /\ UNCHANGED <<imageGroups, jumps, interactionTimeout, isSwiping>>
    /\ UNCHANGED <<rankingVars, movieListVars, adminVars, campingVars>>

NextCarousel ==
    \/ NextButtonClick
    \/ PrevButtonClick
    \/ TouchStart
    \/ \E swipe \in {"left", "right", "none"} : TouchEnd(swipe)
    \/ AutoScrollTick
    \/ StartAutoScroll
    \/ WrapAround
    \/ Resize

SpecCarousel == InitCarouselPage /\ [][NextCarousel]_vars

\* ------------------------------------------------------------- claims
\* the sessions, by id
SessionIds == 1..Len(sessions)

\* the session is in the comparison queue
Queued(sid) == \E k \in 1..Len(comparisonQueue) : comparisonQueue[k] = sid

\* an outcome of the session is submitted and its handler has not resumed
InFlight(sid) == \E c \in inflight : c.sid = sid

\* the ids of a candidate list, in order
Ids(movies) == [k \in 1..Len(movies) |-> movies[k].id]

\* the least e with 2^e >= k
RECURSIVE CeilLog2(_)
CeilLog2(k) == IF k <= 1 THEN 0 ELSE 1 + CeilLog2((k + 1) \div 2)

\* C1: a session over n >= 1 candidates has at most ceil(log2(n + 1))
\* outcomes submitted, whatever the outcomes are.
C1_ComparisonBound ==
    \A sid \in SessionIds :
        sessions[sid].count <= CeilLog2(Len(sessions[sid].movies) + 1)

\* a finished session over 4 candidates that used all 3 comparisons
C1_Witness ==
    \E sid \in SessionIds :
        /\ Len(sessions[sid].movies) = 4
        /\ sessions[sid].count = 3
        /\ sessions[sid].low > sessions[sid].high
        /\ ~InFlight(sid)

\* C3: when the handler of a tie resumes, the session ends on that step:
\* low = high + 1 and the session is not put back into the queue, however
\* wide the window was.
C3_TieTerminates ==
    [][\A c \in inflight :
          (c.choice = "equal" /\ c \notin inflight')
          => /\ sessions'[c.sid].low = sessions'[c.sid].high + 1
             /\ \A k \in 1..Len(comparisonQueue') : comparisonQueue'[k] # c.sid]_vars

\* a session over at least 3 candidates ended by its first outcome: only a
\* tie closes a window that wide in one step
C3_Witness ==
    \E sid \in SessionIds :
        /\ Len(sessions[sid].movies) >= 3
        /\ sessions[sid].count = 1
        /\ sessions[sid].low = sessions[sid].high + 1
        /\ ~InFlight(sid)
        /\ ~Queued(sid)

\* C4: in every state of every session, low <= high + 1.
C4_LowAtMostHighPlusOne ==
    \A sid \in SessionIds : sessions[sid].low <= sessions[sid].high + 1

\* a session closed by its second outcome
C4_Witness ==
    \E sid \in SessionIds :
        /\ sessions[sid].count = 2
        /\ ~InFlight(sid)
        /\ sessions[sid].low = sessions[sid].high + 1

\* C5: when the handler of an outcome resumes, low <= high puts the session
\* back at the head of the queue with the next opponent shown, and
\* low > high leaves it out of the queue; a queued session has low <= high.
C5_DoneIffLowAboveHigh ==
    [][/\ \A c \in inflight :
             c \notin inflight'
             => LET s == sessions'[c.sid]
                IN  /\ s.low <= s.high
                       => /\ comparisonQueue' # <<>>
                          /\ Head(comparisonQueue') = c.sid
                          /\ modal'
                          /\ shown'.b = s.movies[MidOf(s.low, s.high) + 1].id
                    /\ s.low > s.high
                       => /\ \A k \in 1..Len(comparisonQueue') : comparisonQueue'[k] # c.sid
                          /\ comparisonQueue' = <<>> => ~modal'
       /\ \A k \in 1..Len(comparisonQueue') :
             sessions'[comparisonQueue'[k]].low <= sessions'[comparisonQueue'[k]].high]_vars

\* a session put back into the queue with a window of one candidate
C5_Witness ==
    \E sid \in SessionIds :
        /\ sessions[sid].count >= 1
        /\ Queued(sid)
        /\ sessions[sid].low = sessions[sid].high

\* C6: when the handler of an outcome resumes, "a" sets low = mid + 1 and
\* keeps high, "b" sets high = mid - 1 and keeps low, and either keeps the
\* candidates' order and the new item's identity.
C6_BoundsFrame ==
    [][\A c \in inflight :
          (c \notin inflight' /\ c.choice \in {"a", "b"})
          => LET s == sessions[c.sid]
                 t == sessions'[c.sid]
             IN  /\ c.choice = "a" => (t.low = s.mid + 1 /\ t.high = s.high)
                 /\ c.choice = "b" => (t.high = s.mid - 1 /\ t.low = s.low)
                 /\ Ids(t.movies) = Ids(s.movies)
                 /\ t.item = s.item
                 /\ newMovie'.id = newMovie.id]_vars

\* a session that has handled a win and a loss of the new item
C6_Witness ==
    \E sid \in SessionIds :
        /\ sessions[sid].count = 2
        /\ ~InFlight(sid)
        /\ sessions[sid].low > 0
        /\ sessions[sid].high < Len(sessions[sid].movies) - 1

\* out holds the movies of orig by descending rating, movies of equal rating
\* in the order they have in orig
StableSortedDesc(out, orig) ==
    /\ Len(out) = Len(orig)
    /\ \A k \in 1..Len(orig) : \E j \in 1..Len(out) : out[j] = orig[k]
    /\ \A j, k \in 1..Len(out) :
          j < k => /\ out[j].elo_rating >= out[k].elo_rating
                   /\ out[j].elo_rating = out[k].elo_rating
                      => \E x, y \in 1..Len(orig) :
                            x < y /\ orig[x] = out[j] /\ orig[y] = out[k]

\* C7: a session is created with the listed candidates in descending order of
\* rating, equal ratings in listing order, and with low = 0,
\* high = len - 1, mid = floor((low + high) / 2).
C7_InitSortsAndBounds ==
    [][Len(sessions') > Len(sessions)
       => \E i \in 1..Len(adds) :
             /\ adds[i].phase = "get_ok"
             /\ adds'[i].phase = "done"
             /\ LET s == sessions'[Len(sessions')]
                IN  /\ StableSortedDesc(s.movies, FilterOut(adds[i].list, newMovie.id))
                    /\ s.low = 0
                    /\ s.high = Len(s.movies) - 1
                    /\ s.mid = (s.low + s.high) \div 2]_vars

\* a fresh session over at least 3 candidates, two of them with the same
\* rating, whose order is not the listing (creation) order
C7_Witness ==
    \E sid \in SessionIds :
        LET m == sessions[sid].movies
        IN  /\ sessions[sid].count = 0
            /\ Len(m) >= 3
            /\ \E j, k \in 1..Len(m) : j < k /\ m[j].elo_rating = m[k].elo_rating
            /\ \E j, k \in 1..Len(m) : j < k /\ m[j].id > m[k].id

\* C9: no step reorders, extends or shortens the candidates of a session;
\* only the ratings stored on them change.
C9_CandidatesFixed ==
    [][\A sid \in SessionIds :
          Ids(sessions'[sid].movies) = Ids(sessions[sid].movies)]_vars

\* a session whose candidates are no longer in descending order of the
\* ratings stored on them
C9_Witness ==
    \E sid \in SessionIds :
        LET m == sessions[sid].movies
        IN  \E k \in 1..(Len(m) - 1) : m[k].elo_rating < m[k + 1].elo_rating

\* the probe of a session lies inside its window and its candidate list
ProbeInside(s) ==
    /\ s.mid = (s.low + s.high) \div 2
    /\ 0 <= s.low
    /\ s.low <= s.mid
    /\ s.mid <= s.high
    /\ s.high <= Len(s.movies) - 1

\* every queued or submitted session probes inside its candidate list, and
\* the submitted opponent is candidates[mid]
ProbeInsideCandidates ==
    /\ \A sid \in SessionIds :
          (Queued(sid) \/ InFlight(sid))
          => ProbeInside(sessions[sid]) /\ sessions[sid].compareTo = sessions[sid].mid
    /\ \A c \in inflight : c.b = sessions[c.sid].movies[sessions[c.sid].mid + 1].id

\* C2: an add that found its category empty starts no session, its movie is
\* never item A of a shown or submitted comparison, and the movie keeps its
\* baseline rating for as long as no session lists it as a candidate.
C2_AloneKeepsBaseline ==
    \A i \in 1..Len(adds) :
        adds[i].result = "alone"
        => LET m == adds[i].movie
           IN  /\ \A sid \in SessionIds : sessions[sid].item # m
               /\ \A c \in inflight : c.a # m
               /\ modal => shown.a # m
               /\ (\A sid \in SessionIds :
                      \A k \in 1..Len(sessions[sid].movies) :
                          sessions[sid].movies[k].id # m)
                  => db[m].elo = Baseline(adds[i].cat)

\* C8: a submitted comparison has the session's new item as item A and
\* candidates[mid] as opponent, with mid = floor((low + high) / 2) and
\* 0 <= low <= mid <= high <= len - 1; so has the comparison the modal shows
\* for the head of the queue while no outcome is in flight.
C8_ProbeIsNewItemVsMid ==
    /\ \A c \in inflight :
          LET s == sessions[c.sid]
          IN  /\ c.a = s.item
              /\ ProbeInside(s)
              /\ c.b = s.movies[s.mid + 1].id
    /\ (modal /\ comparisonQueue # <<>> /\ inflight = {})
       => LET s == sessions[Head(comparisonQueue)]
          IN  /\ shown.a = s.item
              /\ ProbeInside(s)
              /\ shown.b = s.movies[s.mid + 1].id

\* C10: the bounds of a session do not move when the handler resumes from a
\* compare request that failed.
C10_NoAdvanceWithoutWrite ==
    [][\A c \in inflight :
          (c \notin inflight' /\ c.phase = "err")
          => /\ sessions'[c.sid].low = sessions[c.sid].low
             /\ sessions'[c.sid].high = sessions[c.sid].high]_vars

\* C11: when the handler resumes from an outcome submitted against an
\* opponent the server had deleted, the session is discarded: its bounds
\* stay where they were and it is not put back into the queue, so none of
\* its candidates is shown as the next opponent.
C11_StaleCandidateFailsSession ==
    [][\A c \in inflight :
          (c \notin inflight' /\ c.phase = "gone" /\ c.b \in deleted)
          => /\ sessions'[c.sid].low = sessions[c.sid].low
             /\ sessions'[c.sid].high = sessions[c.sid].high
             /\ \A k \in 1..Len(comparisonQueue') : comparisonQueue'[k] # c.sid]_vars

\* the outcome c is for the pair the session expects: its own new item
\* against candidates[mid]
ExpectedPair(c) ==
    LET s == sessions[c.sid]
    IN  /\ c.a = s.item
        /\ c.b = s.movies[s.mid + 1].id

\* C12: ratings are overwritten and bounds are advanced only for an outcome
\* whose pair is the session's new item against candidates[mid]: the server
\* writes the exchange of a submitted outcome only then, and the resuming
\* handler stores the returned ratings and moves the bounds only then, the
\* new item it writes to being the session's.
C12_AppliedOnlyForCurrentPair ==
    [][/\ \A c \in inflight' \ inflight : c.phase = "ok" => ExpectedPair(c)
       /\ \A c \in inflight \ inflight' :
             ExpectedPair(c) /\ newMovie.id = sessions[c.sid].item]_vars

\* the outcomes of the session submitted and not yet handled
Pending(sid) == {c \in inflight : c.sid = sid}

\* C13: a round is submitted once and applied once.  A session has at most
\* one outcome in flight and is out of the queue meanwhile, so a further
\* click finds nothing to send for it; and the bounds have moved once for
\* every outcome submitted and handled.
C13_OneSubmissionPerRound ==
    \A sid \in SessionIds :
        /\ Cardinality(Pending(sid)) <= 1
        /\ InFlight(sid) => ~Queued(sid)
        /\ Cardinality({k \in 1..Len(comparisonQueue) : comparisonQueue[k] = sid}) <= 1
        /\ sessions[sid].applied + Cardinality(Pending(sid)) = sessions[sid].count

\* the second outcome of a session is in flight, the modal is still up and
\* the queue is empty: the state a second click on the same button finds
C13_Witness ==
    /\ modal
    /\ comparisonQueue = <<>>
    /\ \E c \in inflight : c.round = 2 /\ sessions[c.sid].applied = 1

\* C14: the outcomes of a session are applied in the order of submission.
\* An outcome is submitted as round k + 1 only when k rounds have been
\* applied; the handler that resumes applies the round that follows the
\* rounds applied so far, none of a later round being in flight, and moves
\* the bounds by that outcome.
C14_AppliedInSubmissionOrder ==
    [][/\ \A c \in inflight' \ inflight : c.round = sessions[c.sid].applied + 1
       /\ \A c \in inflight \ inflight' :
             LET s == sessions[c.sid]
                 n == sessions'[c.sid]
             IN  /\ c.round = s.applied + 1
                 /\ n.applied = c.round
                 /\ \A d \in inflight : d.sid = c.sid => d.round = c.round
                 /\ c.choice = "a" => n.low = s.mid + 1
                 /\ c.choice = "b" => n.high = s.mid - 1
                 /\ c.choice = "equal" => n.low = s.high + 1]_vars

\* a session whose third round has been applied
C14_Witness == \E sid \in SessionIds : sessions[sid].applied = 3

C16_ConflictNotCountedAsApplied ==
    [][\A c \in inflight \ inflight' :
          c.phase = "conflict"
          => /\ sessions'[c.sid].low = sessions[c.sid].low
             /\ sessions'[c.sid].high = sessions[c.sid].high
             /\ sessions'[c.sid].mid = sessions[c.sid].mid
             /\ comparisonQueue' # <<>>
             /\ Head(comparisonQueue') = c.sid
             /\ modal'
             /\ shown'.b = c.b]_vars

\* the title is empty or white space only
IsBlank(title) == \A k \in 1..Len(title) : title[k] \in WhiteSpace

\* C17: a rejected add changes nothing.  No add request is ever sent with
\* an empty or white-space title; the step in which the server rejects an
\* add request, and the step in which addMovie resumes from the rejection,
\* leave the ratings, newMovie, the queue, the sessions and the modal as they
\* were, and the add ends there.
C17_RejectedAddChangesNothing ==
    [][/\ \A i \in 1..Len(adds') : ~IsBlank(adds'[i].title)
       /\ (Len(adds') > Len(adds) /\ adds'[Len(adds')].phase = "post_err")
          => UNCHANGED <<db, newMovie, comparisonQueue, sessions, modal, shown>>
       /\ \A i \in 1..Len(adds) :
             (adds[i].phase = "post_err" /\ adds'[i] # adds[i])
             => /\ adds'[i].phase = "done"
                /\ adds'[i].result = "rejected"
                /\ UNCHANGED <<db, newMovie, comparisonQueue, sessions, modal, shown>>]_vars

\* an add was rejected while the session of an earlier add is on show
C17_Witness ==
    /\ \E i \in 1..Len(adds) : adds[i].result = "rejected"
    /\ newMovie # None
    /\ comparisonQueue # <<>>
    /\ modal

\* C18: no compare request is applied between the start and the completion
\* of a rescale pass: across every step taken while the pass runs the stored
\* ratings stay as they are, and an outcome submitted in such a step is
\* answered with a failure.
C18_NoCompareDuringRescale ==
    [][(rescaling /\ rescaling')
       => /\ \A i \in 1..Len(db) : db'[i].elo = db[i].elo
          /\ \A c \in inflight' \ inflight : c.phase # "ok"]_vars

\* an outcome was submitted while a pass was running, for two movies the
\* server knows
C18_Witness ==
    /\ rescaling
    /\ \E c \in inflight : c.phase = "conflict" /\ c.a # c.b

\* C19: rescale is idempotent: when a pass has rewritten the ratings, a
\* second pass over the result, with nothing in between, yields the same
\* ratings.
C19_RescaleIdempotent ==
    [][(rescaling /\ ~rescaling' /\ db' = RescaleElos(db, deleted))
       => RescaleElos(db', deleted') = db']_vars

\* two passes have run over a library with two movies in one category
C19_Witness ==
    /\ rescales = 2
    /\ ~rescaling
    /\ db = RescaleElos(db, deleted)
    /\ \E i, j \in 1..Len(db) :
          i # j /\ Known(i) /\ Known(j) /\ db[i].cat = db[j].cat

\* the order of the categories
Level(cat) ==
    CASE cat = "thumbs_down" -> 1
      [] cat = "okay"        -> 2
      [] cat = "thumbs_up"   -> 3

\* every movie of a lower category is rated below every movie of a higher
\* category
BandsOrdered(lib, gone) ==
    \A i, j \in 1..Len(lib) :
        (i \notin gone /\ j \notin gone /\ Level(lib[i].cat) < Level(lib[j].cat))
        => lib[i].elo < lib[j].elo

\* C20: when a pass has rewritten the ratings, every thumbs_down movie is
\* rated below every okay movie and every okay movie below every thumbs_up
\* movie, whatever the ratings were before.
C20_BandsOrderedAfterRescale ==
    [][(rescaling /\ ~rescaling' /\ db' = RescaleElos(db, deleted))
       => BandsOrdered(db', deleted')]_vars

\* after a pass, movies of all three categories in the order of their
\* bands, the thumbs_down one at the bottom of its band, where only a pass
\* puts it, and the thumbs_up one inside its band
C20_Witness ==
    /\ rescales >= 1
    /\ ~rescaling
    /\ \E i, j, k \in 1..Len(db) :
          /\ Known(i) /\ Known(j) /\ Known(k)
          /\ db[i].cat = "thumbs_down" /\ db[i].elo = Band("thumbs_down").lo
          /\ db[j].cat = "okay"
          /\ db[k].cat = "thumbs_up" /\ db[k].elo >= Band("thumbs_up").lo
          /\ db[i].elo < db[j].elo /\ db[j].elo < db[k].elo
\* C21: the rating update is symmetric: from the same two ratings, the
\* update for (A, B, A wins) and the update for (B, A, B wins) give each of the
\* two movies the same new rating.
C21_UpdateSymmetric ==
    \A a \in 1..Len(db), b \in 1..Len(db) :
        a # b =>
            LET won == EloUpdate(db[a].elo, db[b].elo, "a")
                lost == EloUpdate(db[b].elo, db[a].elo, "b")
            IN  won.a = lost.b /\ won.b = lost.a

\* compare requests have moved the two ratings more than 400 points apart and
\* a win of the higher-rated movie still moves them
C21_Witness ==
    \E a \in 1..Len(db), b \in 1..Len(db) :
        /\ db[a].elo \notin EloInputs
        /\ db[a].elo > db[b].elo + 400
        /\ EloUpdate(db[a].elo, db[b].elo, "a").a > db[a].elo

\* the local ratings of a session's candidates, in list order
Ratings(s) == [k \in 1..Len(s.movies) |-> s.movies[k].elo_rating]

\* C22: with the three candidates rated [1500, 1400, 1300] the first opponent
\* is the candidate at index 1 (rated 1400); after a win of the new item
\* low = 2 and the next opponent is the candidate at index 2 (rated 1300);
\* after a second win low = 3 > high and the session is done, two comparisons
\* having been submitted.  (The local rating of a candidate changes with the
\* response to its comparison, so each stage names the candidates not yet
\* compared.)
C22_WorkedExample ==
    \A sid \in SessionIds :
        LET s == sessions[sid]
            won(k) == s.outcomes[k].choice = "a"
        IN  Len(s.movies) = 3 =>
               /\ (/\ s.outcomes = <<>>
                   /\ {s.movies[k].elo_rating : k \in 1..3} = {1500, 1400, 1300}) =>
                      /\ Ratings(s) = ScenarioElos
                      /\ s.low = 0 /\ s.high = 2 /\ s.mid = 1
                      /\ Opponent(s) = s.movies[2]
                      /\ Opponent(s).elo_rating = 1400
               /\ (/\ Len(s.outcomes) = 1 /\ won(1)
                   /\ s.movies[1].elo_rating = 1500
                   /\ s.movies[3].elo_rating = 1300) =>
                      /\ s.outcomes[1].mid = 1
                      /\ s.low = 2 /\ s.high = 2 /\ s.mid = 2
                      /\ Continues(s)
                      /\ Opponent(s) = s.movies[3]
                      /\ Opponent(s).elo_rating = 1300
               /\ (/\ Len(s.outcomes) = 2 /\ won(1) /\ won(2)
                   /\ s.movies[1].elo_rating = 1500) =>
                      /\ s.outcomes[2].mid = 2
                      /\ s.low = 3 /\ s.low > s.high
                      /\ ~Continues(s)
                      /\ ~Queued(sid) /\ ~InFlight(sid)
                      /\ s.count = 2

\* the session of the example after the new item has won twice
C22_Witness ==
    \E sid \in SessionIds :
        LET s == sessions[sid]
        IN  /\ Len(s.movies) = 3 /\ s.movies[1].elo_rating = 1500
            /\ Len(s.outcomes) = 2
            /\ s.outcomes[1].choice = "a" /\ s.outcomes[2].choice = "a"
            /\ ~modal

\* the outcome o agrees with the ranking that puts exactly p candidates
\* above the new item: the new item beats candidates[i] exactly for i >= p
Consistent(p, o) ==
    CASE o.choice = "a" -> o.mid >= p
      [] o.choice = "b" -> o.mid < p
      [] OTHER          -> FALSE

\* the insertion points that agree with every outcome handled for s
Fits(s) ==
    {p \in 0..Len(s.movies) :
        \A k \in 1..Len(s.outcomes) : Consistent(p, s.outcomes[k])}

\* C23: the session finds the insertion point.  When a session is done and
\* its outcomes were wins and losses that agree with a ranking putting p
\* candidates above the new item, low = p.
C23_FindsInsertionPoint ==
    \A sid \in SessionIds :
        LET s == sessions[sid]
        IN  (~Continues(s) /\ ~InFlight(sid) /\ s.applied = s.count) =>
                \A p \in Fits(s) : s.low = p

\* C24: other client activity does not desync a session.  At most one
\* session is in comparisonQueue, and every outcome submitted for a session
\* names the movie the session was started for against one of the
\* session's candidates.
C24_SessionsIsolated ==
    /\ Len(comparisonQueue) <= 1
    /\ \A c \in inflight :
          LET s == sessions[c.sid]
          IN  /\ c.a = s.item
              /\ \E k \in 1..Len(s.movies) : s.movies[k].id = c.b

\* high - low + 1
Window(s) == s.high - s.low + 1

\* the user has stopped answering: the click budget is used up
Exhausted == Submitted(Len(sessions)) >= MaxClicks

\* the session is unfinished and neither queued nor in flight: another add's
\* startBinaryComparison has replaced the queue it was in
Displaced(sid) ==
    /\ sid \in SessionIds
    /\ Continues(sessions[sid]) /\ ~Queued(sid) /\ ~InFlight(sid)

\* the session is done: low > high, every outcome handled, nothing queued
Finished(sid) ==
    /\ sid \in SessionIds
    /\ ~Continues(sessions[sid]) /\ ~Queued(sid) /\ ~InFlight(sid)

\* C25: every handled outcome strictly decreases the window high - low + 1,
\* which never goes below 0; so with a user who answers what is shown and
\* compare requests that complete, a session that is queued or in flight
\* is eventually done (unless it loses its place in the queue to another add
\* or the user stops answering), and a visible modal is eventually hidden.
C25_SessionTerminates ==
    /\ [][\A c \in inflight \ inflight' :
             LET s == sessions[c.sid]
                 n == sessions'[c.sid]
             IN  Window(n) < Window(s) /\ Window(n) >= 0]_vars
    /\ \A sid \in 1..MaxAdds :
          (sid \in SessionIds /\ (Queued(sid) \/ InFlight(sid)))
              ~> (Finished(sid) \/ Displaced(sid) \/ Exhausted)
    /\ modal ~> (~modal \/ Exhausted)

\* a session that took two outcomes is done and the modal is hidden
C25_Witness ==
    \E sid \in SessionIds :
        /\ sessions[sid].applied = 2
        /\ ~Continues(sessions[sid])
        /\ ~modal
        /\ ~Exhausted

\* C26: within a session no candidate is the opponent of two comparisons,
\* and no comparison puts the new item against itself: the two movies of a
\* submitted outcome differ and the opponent is not the movie the session
\* was started for.
C26_OpponentsDistinct ==
    /\ \A sid \in SessionIds :
          LET o == sessions[sid].outcomes
          IN  \A j \in 1..Len(o), k \in 1..Len(o) : j # k => o[j].opp # o[k].opp
    /\ \A c \in inflight :
          LET o == sessions[c.sid].outcomes
          IN  /\ \A k \in 1..Len(o) : o[k].opp # c.b
              /\ c.a # c.b
              /\ c.b # sessions[c.sid].item

\* C27: once every movie-list load has completed, the list displayed is the
\* one fetched for the current user, in whatever order the responses arrived.
C27_ListIsCurrentUsers ==
    (loads # <<>> /\ \A i \in 1..Len(loads) : loads[i].phase = "done")
        => movieList.user = currentUser

\* C28: a privileged request of the admin page (rescale, delete user, change
\* password) is sent only with credentials that a validating request of
\* ensureAdmin has seen the server accept.
C28_PrivilegedOnlyValidated ==
    \A p \in privileged : p.validated

\* C29: when a preference update succeeds, the clicked day is redrawn for
\* the user and the preference that its request carried, whatever is selected
\* by then; and no day shows two indicators of one user.
C29_IndicatorIsWhatWasSent ==
    /\ [][\A i \in 1..Len(updates) :
             (updates[i].phase = "sent" /\ updates'[i].phase = "ok") =>
                 indicators' =
                     [indicators EXCEPT ![updates[i].day] =
                         UpdateDayVisualState(@, updates[i].user, updates[i].pref)]]_vars
    /\ [](\A d \in Days : \A j \in 1..Len(indicators[d]), k \in 1..Len(indicators[d]) :
             j # k => indicators[d][j].user # indicators[d][k].user)

\* C30: with n image groups and the two clones, currentIndex is the index of
\* an existing slide, 0..n+1, after any sequence of clicks, swipes,
\* auto-scroll ticks and wrap-around jumps.
C30_IndexOnASlide ==
    currentIndex \in 0..(imageGroups + 1)

====
